---- MODULE Spec2Model ----
(***************************************************************************)
(* Converter discovery, probing and batch processing of script.py:         *)
(* ConverterDiscovery (registry scan, instantiation prober, timed probe    *)
(* conversion, ledger) and ExcelPromptProcessor.process_excel.             *)
(***************************************************************************)
EXTENDS Integers, Sequences, FiniteSets, TLC

(* ------------------------------ bounds --------------------------------- *)
NumModules == 2
MaxClock == 6
MaxRows == 2
MaxCap == 1
MaxProbes == 3
\* the longest scan of a whole invocation of main
MaxScan == 2
\* the longest text of a converter file, in tokens
MaxTokens == 5

(* ------------------------- program constants --------------------------- *)
Deadline == 5
NumPatterns == 21

(* --------------------------- input domains ----------------------------- *)
ModuleNameList == <<"a_converter", "b_converter", "c_converter", "d_converter">>
ClassNameList == <<"HumanInTheLoopConverter", "UpperCaseConverter">>

\* the sorted lists of class names inspect.getmembers can return for a module
ClassLists ==
  { <<>>, <<ClassNameList[2]>>, ClassNameList }

\* a capability attribute is a container of kinds: a tuple (subscriptable)
\* or a set (not subscriptable)
Tup(S) == [sub |-> TRUE, kinds |-> S]
SetOf(S) == [sub |-> FALSE, kinds |-> S]

CapabilityCases ==
  { [inputs |-> Tup({"text"}), outputs |-> Tup({"text"})],
    [inputs |-> Tup({"image"}), outputs |-> Tup({"text"})],
    [inputs |-> SetOf({"image"}), outputs |-> Tup({"text"})],
    [inputs |-> Tup({}), outputs |-> Tup({})] }

ImportErrors ==
  { [type |-> "NameError", msg |-> "name 'REQUIRED_VALUE' is not defined"] }

ConvErrors ==
  { [type |-> "NotImplementedError", msg |-> "must implement convert_async()"],
    [type |-> "TimeoutError", msg |-> ""] }

\* what awaiting convert_async does: it returns before the deadline, raises
\* before the deadline, stays suspended, or runs without ever suspending
\* (forever, or until it returns)
NoError == [type |-> "", msg |-> ""]
Conversions ==
  { [kind |-> k, err |-> NoError] : k \in {"returns", "never", "blocks", "slowsync"} }
  \cup { [kind |-> "raises", err |-> e] : e \in ConvErrors }

\* how a constructor call ends: an instance, or an exception whose message is
\* a sequence of characters
Chars(w) ==
  CASE w = "required" -> <<"r","e","q","u","i","r","e","d">>
    [] w = "empty" -> <<"e","m","p","t","y">>
    [] w = "valid" -> <<"v","a","l","i","d">>
    [] w = "missing" -> <<"m","i","s","s","i","n","g">>
    [] w = "Invalid" -> <<"I","n","v","a","l","i","d">>
    [] w = "bad" -> <<"b","a","d">>
    [] w = "Required" -> <<"R","e","q","u","i","r","e","d">>
    [] OTHER -> <<>>

CtorOutcomes ==
  { [ok |-> TRUE, type |-> "", msg |-> <<>>],
    [ok |-> FALSE, type |-> "TypeError", msg |-> Chars("bad")],
    [ok |-> FALSE, type |-> "ValueError", msg |-> Chars("Invalid")],
    [ok |-> FALSE, type |-> "ValueError", msg |-> Chars("bad")],
    [ok |-> FALSE, type |-> "RuntimeError", msg |-> Chars("Required")],
    [ok |-> FALSE, type |-> "RuntimeError", msg |-> Chars("bad")] }

(* ------------------------------ helpers -------------------------------- *)
\* str.lower() on the characters the messages use
LowerChar(c) ==
  CASE c = "I" -> "i"
    [] c = "R" -> "r"
    [] OTHER -> c

Lower(s) == [i \in 1..Len(s) |-> LowerChar(s[i])]

\* Python's `sub in s`
Contains(s, sub) ==
  \E i \in 0..(Len(s) - Len(sub)) : SubSeq(s, i + 1, i + Len(sub)) = sub

\* insertion-ordered dict: a sequence of [key, val] with distinct keys
Keys(d) == { d[i].key : i \in 1..Len(d) }
Has(d, k) == k \in Keys(d)
Get(d, k) == (CHOOSE i \in 1..Len(d) : d[i].key = k)
Val(d, k) == d[Get(d, k)].val
Put(d, k, v) ==
  IF Has(d, k)
    THEN [d EXCEPT ![Get(d, k)] = [key |-> k, val |-> v]]
    ELSE Append(d, [key |-> k, val |-> v])

VARIABLES
  modules,      \* the scanned directory: sorted modules and their classes
  pc,           \* position of the discovery control flow
  mi,           \* index of the module being tested
  ci,           \* index of the class being tested in that module
  pat,          \* index of the next candidate pattern in _try_instantiate
  attempts,     \* candidate patterns tried by the running _try_instantiate
  cur,          \* the instance under test and its pending conversion
  elapsed,      \* time since the pending conversion was started
  working_converters,
  failed_converters,
  text_to_text_converters,
  probed,       \* history: the (module, class) pairs probed so far
  last,         \* history: how the most recent probe went
  file,         \* process_excel: the table read from input_file
  prompt_column,
  max_rows,
  df,           \* the table after the row cap
  results,      \* the enriched copy
  idx,          \* row position of the loop of line 262
  cj,           \* position in text_to_text_converters of the loop of line 270
  bpc,          \* position of the process_excel control flow
  calls,        \* history: the conversions invoked and how each ended
  args,         \* main: the parsed command line
  mpc,          \* position of the control flow of main
  exit_code,    \* the exit code of the process, once it has exited
  single,       \* process_single_prompt: the dict of lists `results`
  sj,           \* position in text_to_text_converters of the loop of line 311
  ctor,         \* _try_instantiate observed: the log of its constructor calls
  abandoned,    \* timeouts observed: the operations wait_for gave up on
                \* that are still executing
  patch,        \* patcher.py: the converter files, their backups and the
                \* position of the script
  plan,         \* two runs: the plugin set, as what each probe of a scan meets
  run,          \* two runs: the run of discovery in progress
  pos,          \* two runs: position of the scan in the plan
  first         \* two runs: the ledger the first run left

dvars ==
  <<modules, pc, mi, ci, pat, attempts, cur, elapsed, working_converters,
    failed_converters, text_to_text_converters, probed, last>>

bvars ==
  <<file, prompt_column, max_rows, df, results, idx, cj, bpc, calls>>

mvars ==
  <<args, mpc, exit_code, single, sj>>

hvars == <<ctor, abandoned, patch>>

tvars == <<plan, run, pos, first>>

vars == <<dvars, bvars, mvars, hvars, tvars>>

ledger == <<working_converters, failed_converters, text_to_text_converters>>

NoCur == [active |-> FALSE]
NoLast == [cls |-> "", verdict |-> "none", noarg |-> FALSE, text |-> FALSE,
           entry |-> FALSE]

(* ------------------------- ledger operations --------------------------- *)
\* mutant: the name compared at line 117 is misspelt
HumanInTheLoop_Misspelt == "HumanInTheLoopconverter"

HumanInTheLoop == "HumanInTheLoopConverter"

IsTextToText(inputs, outputs) ==
  "text" \in inputs.kinds /\ "text" \in outputs.kinds

WorkingEntry(inst, caps) ==
  [instance |-> inst, inputs |-> caps.inputs, outputs |-> caps.outputs,
   is_text_to_text |-> IsTextToText(caps.inputs, caps.outputs)]

\* `c[0] if c else 'unknown'` raises TypeError on a non-empty container that
\* is not subscriptable
FirstKindRaises(c) == c.kinds # {} /\ ~c.sub

CouldNotInstantiate == "Could not instantiate with any known parameters"
TimeoutReason == "Conversion test timeout (likely interactive converter)"
TestingFailed(e) == "Testing failed: " \o e.type \o ": " \o e.msg
ImportFailed(e) == "Import failed: " \o e.type \o ": " \o e.msg

NotSubscriptable ==
  [type |-> "TypeError", msg |-> "'set' object is not subscriptable"]
NoConvertAsync ==
  [type |-> "AttributeError", msg |-> "object has no attribute 'convert_async'"]

Ledger(w, f, t) == [working |-> w, failed |-> f, text |-> t]

\* lines 119-127: the interactive converter is recorded without a test
RecordSkipped(L, cls, inst, caps) ==
  Ledger(Put(L.working, cls, WorkingEntry(inst, caps)),
         L.failed,
         IF IsTextToText(caps.inputs, caps.outputs)
           THEN Put(L.text, cls, inst) ELSE L.text)

\* mutant: the text-to-text mapping is not filled
RecordWorking_DropsText(L, cls, inst, caps) ==
  Ledger(Put(L.working, cls, WorkingEntry(inst, caps)), L.failed, L.text)

\* lines 137-150 and, when the log line raises, lines 158-160
RecordWorking(L, cls, inst, caps) ==
  LET t2t == IsTextToText(caps.inputs, caps.outputs)
      logRaises == ~t2t /\ (FirstKindRaises(caps.inputs)
                            \/ FirstKindRaises(caps.outputs))
  IN Ledger(Put(L.working, cls, WorkingEntry(inst, caps)),
            IF logRaises
              THEN Put(L.failed, cls, TestingFailed(NotSubscriptable))
              ELSE L.failed,
            IF t2t THEN Put(L.text, cls, inst) ELSE L.text)

\* mutant: a conversion that raised is recorded as text-to-text all the same
RecordRaised_AsWorking(L, cls, e) ==
  Ledger(Put(L.working, cls,
             WorkingEntry([cls |-> cls],
                          [inputs |-> Tup({"text"}), outputs |-> Tup({"text"})])),
         L.failed,
         Put(L.text, cls, [cls |-> cls]))

\* lines 152-154 and 158-160: asyncio.TimeoutError has its own handler
RecordRaised(L, cls, e) ==
  Ledger(L.working,
         Put(L.failed, cls,
             IF e.type = "TimeoutError" THEN TimeoutReason ELSE TestingFailed(e)),
         L.text)

\* mutant: a reason is added to the one the name already has
RecordFailed_Accumulates(L, key, reason) ==
  Ledger(L.working,
         Put(L.failed, key,
             IF Has(L.failed, key)
               THEN Val(L.failed, key) \o "; " \o reason ELSE reason),
         L.text)

RecordFailed(L, key, reason) ==
  Ledger(L.working, Put(L.failed, key, reason), L.text)

CurLedger ==
  Ledger(working_converters, failed_converters, text_to_text_converters)

SetLedger(L) ==
  /\ working_converters' = L.working
  /\ failed_converters' = L.failed
  /\ text_to_text_converters' = L.text

(* ------------------------------ prober --------------------------------- *)
\* mutant: every ValueError ends the loop, the message is not looked at
Continues_ValueErrorBreaks(o) ==
  LET error_str == Lower(o.msg)
  IN CASE o.type = "TypeError" -> TRUE
       [] o.type = "ValueError" -> FALSE
       [] OTHER ->
            ~(/\ ~Contains(error_str, Chars("required"))
              /\ ~Contains(error_str, Chars("missing")))

\* lines 201-221: does the loop go on to the next pattern after this failure
Continues(o) ==
  LET error_str == Lower(o.msg)
  IN CASE o.type = "TypeError" -> TRUE
       [] o.type = "ValueError" ->
            \/ Contains(error_str, Chars("required"))
            \/ Contains(error_str, Chars("empty"))
            \/ Contains(error_str, Chars("valid"))
       [] OTHER ->
            ~(/\ ~Contains(error_str, Chars("required"))
              /\ ~Contains(error_str, Chars("missing")))

(* ----------------------------- discovery ------------------------------- *)
Module == modules[mi]
ClassName == Module.classes[ci]
Instance == [cls |-> ClassName]

InitModules ==
  { [i \in 1..NumModules |->
       [name |-> ModuleNameList[i], loadable |-> l[i],
        classes |-> IF l[i] THEN c[i] ELSE <<>>]] :
      l \in [1..NumModules -> BOOLEAN], c \in [1..NumModules -> ClassLists] }

\* a table: its column names, in order, and its rows (column -> cell)
Table(cols, rows) == [cols |-> cols, rows |-> rows]
EmptyTable == Table(<<>>, <<>>)
NoCap == [given |-> FALSE, n |-> 0]

\* process_excel has not been called
BatchIdle ==
  /\ file = EmptyTable
  /\ prompt_column = "prompt"
  /\ max_rows = NoCap
  /\ df = EmptyTable
  /\ results = EmptyTable
  /\ idx = 1
  /\ cj = 1
  /\ bpc = "idle"
  /\ calls = <<>>

\* the dict of lists of lines 304-309
EmptyResults ==
  [Converter |-> <<>>, Input |-> <<>>, Output |-> <<>>, Status |-> <<>>]

\* the process has not exited
NotExited == -1

\* no constructor call has been observed
NoCtor == [tried |-> <<>>, last |-> [ok |-> TRUE, type |-> "", msg |-> <<>>],
           shape_only |-> TRUE]

NoArgs == [prompt |-> [nan |-> TRUE, s |-> <<>>], input_file |-> FALSE]

\* patcher.py is not what runs
NoPatch ==
  [files |-> <<>>, backups |-> <<>>, i |-> 1, pc |-> "idle",
   original |-> <<>>, content |-> <<>>, run |-> 0, patched |-> {}]

\* discovery is not run a second time
TwiceIdle ==
  /\ plan = <<>>
  /\ run = 0
  /\ pos = 1
  /\ first = [working |-> <<>>, failed |-> <<>>, text |-> <<>>]

\* main is not what runs
MainIdle ==
  /\ args = NoArgs
  /\ mpc = "idle"
  /\ exit_code = NotExited
  /\ single = EmptyResults
  /\ sj = 1
  /\ ctor = NoCtor
  /\ abandoned = {}
  /\ patch = NoPatch
  /\ TwiceIdle

Init ==
  /\ BatchIdle
  /\ MainIdle
  /\ modules \in InitModules
  /\ pc = "scan"
  /\ mi = 1
  /\ ci = 1
  /\ pat = 1
  /\ attempts = <<>>
  /\ cur = NoCur
  /\ elapsed = 0
  /\ working_converters = <<>>
  /\ failed_converters = <<>>
  /\ text_to_text_converters = <<>>
  /\ probed = <<>>
  /\ last = NoLast

\* mutant: a failed probe abandons the remaining classes of its module
EndProbe_AbortsModule(verdict) ==
  /\ IF verdict \in {"returned", "skipped_test"}
       THEN pc' = "class" /\ ci' = ci + 1 /\ UNCHANGED mi
       ELSE pc' = "scan" /\ mi' = mi + 1 /\ UNCHANGED ci
  /\ cur' = NoCur
  /\ elapsed' = 0
  /\ pat' = 1
  /\ attempts' = <<>>
  /\ last' = [cls |-> ClassName, verdict |-> verdict,
              noarg |-> (cur.active /\ cur.noarg),
              text |-> (cur.active /\ IsTextToText(cur.caps.inputs, cur.caps.outputs)),
              entry |-> (cur.active /\ cur.entry)]
  /\ UNCHANGED <<modules, probed>>
  /\ UNCHANGED <<bvars, mvars, tvars>>

\* the probe of the current class is over: back to the loop of line 90
EndProbe(verdict) ==
  /\ pc' = "class"
  /\ ci' = ci + 1
  /\ cur' = NoCur
  /\ elapsed' = 0
  /\ pat' = 1
  /\ attempts' = <<>>
  /\ last' = [cls |-> ClassName, verdict |-> verdict,
              noarg |-> (cur.active /\ cur.noarg),
              text |-> (cur.active /\ IsTextToText(cur.caps.inputs, cur.caps.outputs)),
              entry |-> (cur.active /\ cur.entry)]
  /\ UNCHANGED <<modules, mi, probed>>
  /\ UNCHANGED <<bvars, mvars, tvars>>

\* mutant: a load error ends the scan
ImportFails_EndsScan ==
  /\ pc = "scan" /\ mi <= Len(modules) /\ ~Module.loadable
  /\ \E e \in ImportErrors :
       SetLedger(RecordFailed(CurLedger, Module.name, ImportFailed(e)))
  /\ pc' = "done"
  /\ UNCHANGED <<modules, mi, ci, pat, attempts, cur, elapsed, probed, last>>
  /\ UNCHANGED <<bvars, mvars, hvars, tvars>>

\* line 78 raises: lines 93-97
ImportFails ==
  /\ pc = "scan" /\ mi <= Len(modules) /\ ~Module.loadable
  /\ \E e \in ImportErrors :
       SetLedger(RecordFailed(CurLedger, Module.name, ImportFailed(e)))
  /\ mi' = mi + 1
  /\ UNCHANGED <<modules, pc, ci, pat, attempts, cur, elapsed, probed, last>>
  /\ UNCHANGED <<bvars, mvars, hvars, tvars>>

\* lines 78-88: the module loads; without converter classes it is done
ImportLoads ==
  /\ pc = "scan" /\ mi <= Len(modules) /\ Module.loadable
  /\ IF Module.classes = <<>>
       THEN mi' = mi + 1 /\ UNCHANGED <<pc, ci>>
       ELSE pc' = "class" /\ ci' = 1 /\ UNCHANGED mi
  /\ UNCHANGED <<modules, pat, attempts, cur, elapsed, ledger, probed, last>>
  /\ UNCHANGED <<bvars, mvars, hvars, tvars>>

\* line 90-91 and 103: the next class of the module enters _try_instantiate
BeginProbe ==
  /\ pc = "class" /\ ci <= Len(Module.classes)
  /\ pc' = "inst"
  /\ pat' = 1
  /\ attempts' = <<>>
  /\ probed' = Append(probed, <<Module.name, ClassName>>)
  /\ last' = NoLast
  /\ UNCHANGED <<modules, mi, ci, cur, elapsed, ledger>>
  /\ UNCHANGED <<bvars, mvars, hvars, tvars>>

\* line 90: the classes of the module are exhausted; line 58: next module
EndModule ==
  /\ pc = "class" /\ ci > Len(Module.classes)
  /\ pc' = "scan"
  /\ mi' = mi + 1
  /\ UNCHANGED <<modules, ci, pat, attempts, cur, elapsed, ledger, probed, last>>
  /\ UNCHANGED <<bvars, mvars, hvars, tvars>>

\* line 58: no module is left
Finish ==
  /\ pc = "scan" /\ mi > Len(modules)
  /\ pc' = "done"
  /\ UNCHANGED <<modules, mi, ci, pat, attempts, cur, elapsed, ledger, probed, last>>
  /\ UNCHANGED <<bvars, mvars, hvars, tvars>>

\* lines 196-200 and 109-112: the pattern constructs and _try_instantiate
\* returns (its loop is over); the capabilities are read, and the instance has
\* a convert_async or has none
Constructs(o) ==
  /\ pc = "inst" /\ pat <= NumPatterns
  /\ o.ok
  /\ \E caps \in CapabilityCases, entry \in BOOLEAN :
       cur' = [active |-> TRUE, noarg |-> (pat = 1), caps |-> caps,
               entry |-> entry, kind |-> "", err |-> NoError]
  /\ pat' = 1
  /\ attempts' = <<>>
  /\ pc' = "test"
  /\ UNCHANGED <<modules, mi, ci, elapsed, ledger, probed, last>>
  /\ UNCHANGED <<bvars, mvars, tvars>>

\* mutant: after a failure the loop starts over from the first pattern
Fails_StartsOver(o) ==
  /\ pc = "inst" /\ pat <= NumPatterns
  /\ ~o.ok /\ Continues(o)
  /\ attempts' = Append(attempts, pat)
  /\ pat' = 1
  /\ UNCHANGED <<modules, pc, mi, ci, cur, elapsed, ledger, probed, last>>
  /\ UNCHANGED <<bvars, mvars, tvars>>

\* lines 201-209, 215-218: the failure lets the loop continue
Fails(o) ==
  /\ pc = "inst" /\ pat <= NumPatterns
  /\ ~o.ok /\ Continues(o)
  /\ attempts' = Append(attempts, pat)
  /\ pat' = pat + 1
  /\ UNCHANGED <<modules, pc, mi, ci, cur, elapsed, ledger, probed, last>>
  /\ UNCHANGED <<bvars, mvars, tvars>>

\* lines 210-214, 219-221, 223 and 105-107: break, None, failed
Breaks(o) ==
  /\ pc = "inst" /\ pat <= NumPatterns
  /\ ~o.ok /\ ~Continues(o)
  /\ SetLedger(RecordFailed(CurLedger, ClassName, CouldNotInstantiate))
  /\ EndProbe("could_not_instantiate")

InstantiateOk ==
  \E o \in CtorOutcomes : Constructs(o) /\ UNCHANGED hvars

InstantiateRetry ==
  \E o \in CtorOutcomes : Fails(o) /\ UNCHANGED hvars

InstantiateStop ==
  \E o \in CtorOutcomes : Breaks(o) /\ UNCHANGED hvars

\* line 195: every pattern was tried; line 223 and 105-107
InstantiateExhausted ==
  /\ pc = "inst" /\ pat > NumPatterns
  /\ SetLedger(RecordFailed(CurLedger, ClassName, CouldNotInstantiate))
  /\ EndProbe("could_not_instantiate")
  /\ UNCHANGED hvars

\* lines 117-127: the interactive converter is not executed
SkipTest ==
  /\ pc = "test" /\ ClassName = HumanInTheLoop
  /\ SetLedger(RecordSkipped(CurLedger, ClassName, Instance, cur.caps))
  /\ EndProbe("skipped_test")
  /\ UNCHANGED hvars

\* line 130: the instance has no convert_async; lines 158-160
NoEntryPoint ==
  /\ pc = "test" /\ ClassName # HumanInTheLoop /\ ~cur.entry
  /\ SetLedger(RecordRaised(CurLedger, ClassName, NoConvertAsync))
  /\ EndProbe("testing_failed")
  /\ UNCHANGED hvars

\* lines 129-135: the conversion is started and awaited under the deadline
StartConversion ==
  /\ pc = "test" /\ ClassName # HumanInTheLoop /\ cur.entry
  /\ \E c \in Conversions : cur' = [cur EXCEPT !.kind = c.kind, !.err = c.err]
  /\ pc' = "waiting"
  /\ elapsed' = 0
  /\ pat' = 1
  /\ attempts' = <<>>
  /\ UNCHANGED <<modules, mi, ci, ledger, probed, last>>
  /\ UNCHANGED <<bvars, mvars, hvars, tvars>>

\* does the pending conversion leave the event loop free to run the timer
Suspends(kind) == kind \in {"returns", "raises", "never"}

\* time passes while the conversion is pending; a conversion that completes
\* does so before the deadline, and the timer of a free event loop fires at it
Tick ==
  /\ pc = "waiting" /\ elapsed < MaxClock
  /\ cur.kind \in {"returns", "raises"} => elapsed + 1 < Deadline
  /\ cur.kind = "never" => elapsed < Deadline
  /\ elapsed' = elapsed + 1
  /\ UNCHANGED <<modules, pc, mi, ci, pat, attempts, cur, ledger, probed, last>>
  /\ UNCHANGED <<bvars, mvars, hvars, tvars>>

\* line 129 returns a result: lines 137-150
ConversionReturns ==
  /\ pc = "waiting" /\ cur.kind = "returns" /\ elapsed < Deadline
  /\ SetLedger(RecordWorking(CurLedger, ClassName, Instance, cur.caps))
  /\ EndProbe("returned")
  /\ UNCHANGED hvars

\* the conversion raises before the deadline: lines 152-162
ConversionRaises ==
  /\ pc = "waiting" /\ cur.kind = "raises" /\ elapsed < Deadline
  /\ SetLedger(RecordRaised(CurLedger, ClassName, cur.err))
  /\ EndProbe("raised")
  /\ UNCHANGED hvars

\* the deadline passes on a suspended conversion: wait_for cancels it and
\* raises asyncio.TimeoutError, lines 152-154
TimesOut ==
  /\ pc = "waiting" /\ Suspends(cur.kind) /\ elapsed >= Deadline
  /\ SetLedger(RecordFailed(CurLedger, ClassName, TimeoutReason))
  /\ EndProbe("timeout")

WaitTimesOut == TimesOut /\ UNCHANGED hvars

\* a conversion that runs without suspending returns whenever it is done; the
\* timer could not run meanwhile, so wait_for hands over the result
BlockedReturns ==
  /\ pc = "waiting" /\ cur.kind = "slowsync"
  /\ SetLedger(RecordWorking(CurLedger, ClassName, Instance, cur.caps))
  /\ EndProbe("returned")
  /\ UNCHANGED hvars

Next ==
  \/ ImportFails
  \/ ImportLoads
  \/ BeginProbe
  \/ EndModule
  \/ Finish
  \/ InstantiateOk
  \/ InstantiateRetry
  \/ InstantiateStop
  \/ InstantiateExhausted
  \/ SkipTest
  \/ NoEntryPoint
  \/ StartConversion
  \/ Tick
  \/ ConversionReturns
  \/ ConversionRaises
  \/ WaitTimesOut
  \/ BlockedReturns

Spec == Init /\ [][Next]_vars

(* ------------------ the timeout, and what it abandons ------------------ *)
\* lines 129-135 and 152-154, observed: wait_for cancels the awaiting task. A
\* conversion suspended on the event loop itself ends with the cancellation; one
\* whose work was handed to a thread (run_in_executor) is only given up on,
\* and the thread keeps executing the plugin's code
WaitAbandons ==
  /\ TimesOut
  /\ \E detached \in BOOLEAN :
       abandoned' = IF detached THEN abandoned \cup {<<Module.name, ClassName>>}
                                ELSE abandoned
  /\ UNCHANGED <<ctor, patch>>

\* the thread of an abandoned operation runs to its end
AbandonedEnds ==
  /\ \E c \in abandoned : abandoned' = abandoned \ {c}
  /\ UNCHANGED <<dvars, bvars, mvars, ctor, patch, tvars>>

NextAbandon ==
  \/ ImportFails
  \/ ImportLoads
  \/ BeginProbe
  \/ EndModule
  \/ Finish
  \/ InstantiateOk
  \/ InstantiateRetry
  \/ InstantiateStop
  \/ InstantiateExhausted
  \/ SkipTest
  \/ NoEntryPoint
  \/ StartConversion
  \/ Tick
  \/ ConversionReturns
  \/ ConversionRaises
  \/ WaitAbandons
  \/ AbandonedEnds
  \/ BlockedReturns

SpecAbandon == Init /\ [][NextAbandon]_vars

(* ------------------- _try_instantiate, observed ------------------------ *)
\* the log after the constructor call on the current pattern ended as o
Logged(o) ==
  [tried |-> Append(ctor.tried, pat),
   last |-> o,
   shape_only |-> (ctor.shape_only /\ (o.ok \/ o.type = "TypeError"))]

\* line 103: _try_instantiate is called on one class
InitProber ==
  /\ BatchIdle
  /\ MainIdle
  /\ \E i \in 1..Len(ClassNameList) :
       /\ modules = << [name |-> ModuleNameList[1], loadable |-> TRUE,
                        classes |-> <<ClassNameList[i]>>] >>
       /\ probed = << <<ModuleNameList[1], ClassNameList[i]>> >>
  /\ pc = "inst"
  /\ mi = 1
  /\ ci = 1
  /\ pat = 1
  /\ attempts = <<>>
  /\ cur = NoCur
  /\ elapsed = 0
  /\ working_converters = <<>>
  /\ failed_converters = <<>>
  /\ text_to_text_converters = <<>>
  /\ last = NoLast

ProberOk ==
  \E o \in CtorOutcomes :
    Constructs(o) /\ ctor' = Logged(o) /\ UNCHANGED <<abandoned, patch>>

ProberRetry ==
  \E o \in CtorOutcomes :
    Fails(o) /\ ctor' = Logged(o) /\ UNCHANGED <<abandoned, patch>>

ProberStop ==
  \E o \in CtorOutcomes :
    Breaks(o) /\ ctor' = Logged(o) /\ UNCHANGED <<abandoned, patch>>

NextProber ==
  \/ ProberOk
  \/ ProberRetry
  \/ ProberStop
  \/ InstantiateExhausted

SpecProber == InitProber /\ [][NextProber]_vars

(* ----------------------- discovery, run twice -------------------------- *)
\* what one step of the scan meets: a module that does not load, or a class
\* with what its constructor, its capabilities and its conversion do; an
\* unchanged plugin set meets every run with the same
Meets ==
  LET names == { ClassNameList[i] : i \in 1..Len(ClassNameList) }
      none == [inputs |-> Tup({}), outputs |-> Tup({})]
  IN { [kind |-> "import_fails", key |-> m, caps |-> none, err |-> e] :
         m \in { ModuleNameList[i] : i \in 1..NumModules }, e \in ImportErrors }
     \cup
     { [kind |-> "no_instance", key |-> c, caps |-> none, err |-> NoError] :
         c \in names }
     \cup
     { [kind |-> "skipped", key |-> HumanInTheLoop, caps |-> caps, err |-> NoError] :
         caps \in CapabilityCases }
     \cup
     { [kind |-> "returns", key |-> c, caps |-> caps, err |-> NoError] :
         c \in names \ {HumanInTheLoop}, caps \in CapabilityCases }
     \cup
     { [kind |-> "raises", key |-> c, caps |-> none, err |-> e] :
         c \in names \ {HumanInTheLoop}, e \in ConvErrors \cup {NoConvertAsync} }
     \cup
     { [kind |-> "timeout", key |-> c, caps |-> none, err |-> NoError] :
         c \in names \ {HumanInTheLoop} }

\* the scans of at most MaxProbes steps; a module is met once in a scan
PlansUpTo(len) ==
  { p \in UNION { [1..n -> Meets] : n \in 1..len } :
      \A i, j \in 1..Len(p) :
        (i # j /\ p[i].kind = "import_fails") => p[i].key # p[j].key }

Plans == PlansUpTo(MaxProbes)

\* the ledger after the step: lines 93-97, 105-107, 117-127, 137-162
Met(L, m) ==
  CASE m.kind = "import_fails" -> RecordFailed(L, m.key, ImportFailed(m.err))
    [] m.kind = "no_instance" -> RecordFailed(L, m.key, CouldNotInstantiate)
    [] m.kind = "skipped" -> RecordSkipped(L, m.key, [cls |-> m.key], m.caps)
    [] m.kind = "returns" -> RecordWorking(L, m.key, [cls |-> m.key], m.caps)
    [] m.kind = "raises" -> RecordRaised(L, m.key, m.err)
    [] m.kind = "timeout" -> RecordFailed(L, m.key, TimeoutReason)

\* lines 38-42: a ConverterDiscovery on a plugin set, before its first run
InitTwice ==
  /\ BatchIdle
  /\ args = NoArgs
  /\ mpc = "idle"
  /\ exit_code = NotExited
  /\ single = EmptyResults
  /\ sj = 1
  /\ ctor = NoCtor
  /\ abandoned = {}
  /\ patch = NoPatch
  /\ modules = <<>>
  /\ pc = "replay"
  /\ mi = 1
  /\ ci = 1
  /\ pat = 1
  /\ attempts = <<>>
  /\ cur = NoCur
  /\ elapsed = 0
  /\ working_converters = <<>>
  /\ failed_converters = <<>>
  /\ text_to_text_converters = <<>>
  /\ probed = <<>>
  /\ last = NoLast
  /\ plan \in Plans
  /\ run = 1
  /\ pos = 1
  /\ first = [working |-> <<>>, failed |-> <<>>, text |-> <<>>]

\* lines 58-60: the next step of the scan, with what it writes
ScanStep ==
  /\ run \in {1, 2} /\ pos <= Len(plan)
  /\ SetLedger(Met(CurLedger, plan[pos]))
  /\ pos' = pos + 1
  /\ UNCHANGED <<plan, run, first>>
  /\ UNCHANGED <<modules, pc, mi, ci, pat, attempts, cur, elapsed, probed, last>>
  /\ UNCHANGED <<bvars, mvars, hvars>>

\* lines 62-64: the first run is over; discover_and_test_converters is
\* called again on the same object
RunAgain ==
  /\ run = 1 /\ pos > Len(plan)
  /\ first' = CurLedger
  /\ run' = 2
  /\ pos' = 1
  /\ UNCHANGED plan
  /\ UNCHANGED <<dvars, bvars, mvars, hvars>>

\* lines 62-64: the second run is over
SecondRunEnds ==
  /\ run = 2 /\ pos > Len(plan)
  /\ run' = 3
  /\ UNCHANGED <<plan, pos, first>>
  /\ UNCHANGED <<dvars, bvars, mvars, hvars>>

NextTwice ==
  \/ ScanStep
  \/ RunAgain
  \/ SecondRunEnds

SpecTwice == InitTwice /\ [][NextTwice]_vars

(* ============================ patcher.py =============================== *)
\* the text of a converter file, as a sequence of tokens: words, and the
\* texts that stand between the `from` and the name of an import. A word is
\* followed by a line break unless one of the four texts follows it
Words == {"from", "SeedPrompt"}

\* lines 25-41: the three patterns, by the text after `from`; the third one
\* takes the name SeedPrompt alone, the others any word (\w+)
Replacements ==
  <<" pyrit.identifiers import ", " pyrit.common.path import ",
    " pyrit.models import ">>

\* lines 29, 34 and 39: what the replaced import has after `from`
Compat == " pyrit_compat import "

Matches(n, s) ==
  /\ Len(s) >= 3
  /\ s[1] = "from"
  /\ s[2] = Replacements[n]
  /\ s[3] \in Words
  /\ n = 3 => s[3] = "SeedPrompt"

\* line 54: re.sub(pattern, replacement, content): one pass from left to
\* right over the matches that do not overlap; the replaced text is not
\* searched again
RECURSIVE Sub(_, _)
Sub(n, s) ==
  IF s = <<>> THEN <<>>
  ELSE IF Matches(n, s)
    THEN <<"from", Compat, s[3]>> \o Sub(n, SubSeq(s, 4, Len(s)))
    ELSE <<Head(s)>> \o Sub(n, Tail(s))

\* lines 53-54: the replacements, one after the other
Patched(s) == Sub(3, Sub(2, Sub(1, s)))

\* the file x.py.bak of a converter file x.py
NoBackup == [exists |-> FALSE, text |-> <<>>]
Backup(text) == [exists |-> TRUE, text |-> text]

(* ---- inputs ---- *)
Contents ==
  LET tokens == Words \cup { Replacements[n] : n \in 1..3 } \cup {Compat}
  IN UNION { [1..n -> tokens] : n \in 0..MaxTokens }

\* line 21: the files *_converter.py of the directory, in the order of glob:
\* one file of any text, or two files, each with one import to replace or
\* with none
ConverterFiles ==
  LET plain == { <<"from", Replacements[1], "SeedPrompt">>, <<"SeedPrompt">> }
  IN { <<c>> : c \in Contents } \cup { <<c, d>> : c \in plain, d \in plain }

\* lines 14-44: the script is started on a directory without backups
InitPatch ==
  /\ modules = <<>>
  /\ pc = "done"
  /\ mi = 1
  /\ ci = 1
  /\ pat = 1
  /\ attempts = <<>>
  /\ cur = NoCur
  /\ elapsed = 0
  /\ working_converters = <<>>
  /\ failed_converters = <<>>
  /\ text_to_text_converters = <<>>
  /\ probed = <<>>
  /\ last = NoLast
  /\ BatchIdle
  /\ args = NoArgs
  /\ mpc = "idle"
  /\ exit_code = NotExited
  /\ single = EmptyResults
  /\ sj = 1
  /\ ctor = NoCtor
  /\ abandoned = {}
  /\ TwiceIdle
  /\ \E fs \in ConverterFiles :
       patch = [files |-> fs, backups |-> [f \in 1..Len(fs) |-> NoBackup],
                i |-> 1, pc |-> "loop",
                original |-> <<>>, content |-> <<>>, run |-> 1,
                patched |-> {}]

\* lines 46-57: the file is read and the replacements change nothing
PatchNothing ==
  /\ patch.pc = "loop" /\ patch.i <= Len(patch.files)
  /\ Patched(patch.files[patch.i]) = patch.files[patch.i]
  /\ patch' = [patch EXCEPT !.i = @ + 1]
  /\ UNCHANGED <<dvars, bvars, mvars, ctor, abandoned, tvars>>

\* lines 46-57: the file is read and the replacements change its text
PatchChanges ==
  /\ patch.pc = "loop" /\ patch.i <= Len(patch.files)
  /\ Patched(patch.files[patch.i]) # patch.files[patch.i]
  /\ patch' = [patch EXCEPT !.original = patch.files[patch.i],
                            !.content = Patched(patch.files[patch.i]),
                            !.pc = "backup"]
  /\ UNCHANGED <<dvars, bvars, mvars, ctor, abandoned, tvars>>

\* lines 59-60: the text read is written to the backup file
PatchBackup ==
  /\ patch.pc = "backup"
  /\ patch' = [patch EXCEPT !.backups[patch.i] = Backup(patch.original),
                            !.pc = "write"]
  /\ UNCHANGED <<dvars, bvars, mvars, ctor, abandoned, tvars>>

\* lines 63-66: the patched text is written over the file
PatchOverwrite ==
  /\ patch.pc = "write"
  /\ patch' = [patch EXCEPT !.files[patch.i] = patch.content,
                            !.i = @ + 1,
                            !.pc = "loop",
                            !.patched = @ \cup {<<patch.run, patch.i>>}]
  /\ UNCHANGED <<dvars, bvars, mvars, ctor, abandoned, tvars>>

\* lines 68-70: reading or writing raises (OSError); the file is left and
\* the loop goes on
PatchError ==
  /\ patch.pc \in {"loop", "backup", "write"} /\ patch.i <= Len(patch.files)
  /\ patch' = [patch EXCEPT !.i = @ + 1, !.pc = "loop"]
  /\ UNCHANGED <<dvars, bvars, mvars, ctor, abandoned, tvars>>

\* line 46: the files are exhausted; the script is run once more
PatchAgain ==
  /\ patch.pc = "loop" /\ patch.i > Len(patch.files) /\ patch.run = 1
  /\ patch' = [patch EXCEPT !.i = 1, !.run = 2]
  /\ UNCHANGED <<dvars, bvars, mvars, ctor, abandoned, tvars>>

\* line 46: the files are exhausted in the second run
PatchDone ==
  /\ patch.pc = "loop" /\ patch.i > Len(patch.files) /\ patch.run = 2
  /\ patch' = [patch EXCEPT !.pc = "done"]
  /\ UNCHANGED <<dvars, bvars, mvars, ctor, abandoned, tvars>>

NextPatch ==
  \/ PatchNothing
  \/ PatchChanges
  \/ PatchBackup
  \/ PatchOverwrite
  \/ PatchError
  \/ PatchAgain
  \/ PatchDone

SpecPatch == InitPatch /\ [][NextPatch]_vars

(* ========================== process_excel ============================== *)
\* cells: NaN (an empty cell) or a string, a sequence of characters
NaN == [nan |-> TRUE, s |-> <<>>]
Str(chars) == [nan |-> FALSE, s |-> chars]

Whitespace == {" ", "\t", "\n"}

\* str.strip(): leading and trailing whitespace removed
RECURSIVE LStrip(_)
LStrip(s) ==
  IF s # <<>> /\ Head(s) \in Whitespace THEN LStrip(Tail(s)) ELSE s

RECURSIVE RStrip(_)
RStrip(s) ==
  IF s # <<>> /\ s[Len(s)] \in Whitespace
    THEN RStrip(SubSeq(s, 1, Len(s) - 1)) ELSE s

Strip(s) == RStrip(LStrip(s))

\* mutant: the prompt is compared without being stripped
IsBlank_NoStrip(prompt) == prompt.nan \/ prompt.s = <<>>

\* line 265: pd.isna(prompt) or str(prompt).strip() == ''
IsBlank(prompt) == prompt.nan \/ Strip(prompt.s) = <<>>

\* line 277: f"{converter_name}_output"
OutputColumn(converter_name) == converter_name \o "_output"

\* line 285: f"ERROR: {str(e)}"
ErrorMarker(msg) == Str(<<"E", "R", "R", "O", "R", ":", " ">> \o msg)

\* the conversions of the converters the batch runs on
UpperChar(c) ==
  CASE c = "h" -> "H"
    [] c = "i" -> "I"
    [] c = "g" -> "G"
    [] c = "o" -> "O"
    [] OTHER -> c

Upper(s) == [i \in 1..Len(s) |-> UpperChar(s[i])]

ConvertText(converter_name, text) ==
  IF converter_name = "UpperCaseConverter" THEN Upper(text) ELSE text

BatchErrors == { <<"b", "o", "o", "m">> }

\* str(e) of the TypeError that line 280 raises on an output_text of None
NoneNotSubscriptable ==
  <<"'", "N", "o", "n", "e", "T", "y", "p", "e", "'", " ", "o",
    "b", "j", "e", "c", "t", " ", "i", "s", " ", "n", "o", "t",
    " ", "s", "u", "b", "s", "c", "r", "i", "p", "t", "a", "b",
    "l", "e">>

Call(row, conv, outcome, msg) ==
  [row |-> row, conv |-> conv, outcome |-> outcome, msg |-> msg]

ColumnSet(t) == { t.cols[i] : i \in 1..Len(t.cols) }

\* results.loc[row, column] = value: a missing column is added, NaN elsewhere
SetCell(t, row, column, value) ==
  LET cols == IF column \in ColumnSet(t) THEN t.cols ELSE Append(t.cols, column)
      widened == [r \in 1..Len(t.rows) |->
                   IF column \in ColumnSet(t) THEN t.rows[r]
                   ELSE t.rows[r] @@ (column :> NaN)]
  IN Table(cols, [widened EXCEPT ![row] = [@ EXCEPT ![column] = value]])

\* DataFrame.head(n)
HeadRows(t, n) ==
  Table(t.cols,
        IF n >= 0
          THEN SubSeq(t.rows, 1, IF n < Len(t.rows) THEN n ELSE Len(t.rows))
          ELSE SubSeq(t.rows, 1, IF Len(t.rows) + n > 0 THEN Len(t.rows) + n ELSE 0))

\* lines 255-256: `if max_rows:` is false for None and for 0
Capped(t, cap) == IF cap.given /\ cap.n # 0 THEN HeadRows(t, cap.n) ELSE t

\* mutant: the converters of a row are taken last to first
Converter_Reversed(j) ==
  text_to_text_converters[Len(text_to_text_converters) + 1 - j].key

\* line 270: the j-th item of text_to_text_converters.items()
Converter(j) == text_to_text_converters[j].key
Prompt == df.rows[idx][prompt_column]

(* ---- inputs ---- *)
PromptValues == { NaN, Str(<<>>), Str(<<" ">>), Str(<<"h", "i">>), Str(<<"g", "o">>) }

ColumnLists ==
  { <<"id", "prompt">>, <<"prompt", "UpperCaseConverter_output">> }

OtherCell == Str(<<"x">>)

InputRow(cols, prompt) ==
  [c \in { cols[i] : i \in 1..Len(cols) } |->
     IF c = "prompt" THEN prompt ELSE OtherCell]

\* the dataset of the documented scenario: rows "hi", "", "go" under `prompt`
ScenarioPrompts == <<Str(<<"h", "i">>), Str(<<>>), Str(<<"g", "o">>)>>
ScenarioTable ==
  Table(<<"prompt">>, [r \in 1..3 |-> InputRow(<<"prompt">>, ScenarioPrompts[r])])

\* a dataset whose one prompt is itself the text "ERROR: "
MarkerPrompt == ErrorMarker(<<>>)
MarkerTable == Table(<<"prompt">>, <<InputRow(<<"prompt">>, MarkerPrompt)>>)

InputTables ==
  { Table(cols, [r \in 1..n |-> InputRow(cols, ps[r])]) :
      cols \in ColumnLists, n \in 0..MaxRows, ps \in [1..MaxRows -> PromptValues] }
  \cup { ScenarioTable, MarkerTable }

Caps == { NoCap } \cup { [given |-> TRUE, n |-> k] : k \in 0..MaxCap }

ConverterDicts ==
  { <<>> }
  \cup { <<[key |-> a, val |-> [cls |-> a]]>> :
           a \in { ClassNameList[i] : i \in 1..Len(ClassNameList) } }
  \cup { <<[key |-> ClassNameList[p[1]], val |-> [cls |-> ClassNameList[p[1]]]],
            [key |-> ClassNameList[p[2]], val |-> [cls |-> ClassNameList[p[2]]]]>> :
           p \in { <<1, 2>>, <<2, 1>> } }

TextCaps == [inputs |-> Tup({"text"}), outputs |-> Tup({"text"})]

\* process_excel is called on a discovery that has ended
InitBatch ==
  /\ modules = <<>>
  /\ pc = "done"
  /\ mi = 1
  /\ ci = 1
  /\ pat = 1
  /\ attempts = <<>>
  /\ cur = NoCur
  /\ elapsed = 0
  /\ text_to_text_converters \in ConverterDicts
  /\ working_converters =
       [j \in 1..Len(text_to_text_converters) |->
          [key |-> text_to_text_converters[j].key,
           val |-> WorkingEntry(text_to_text_converters[j].val, TextCaps)]]
  /\ failed_converters = <<>>
  /\ probed = <<>>
  /\ last = NoLast
  /\ file \in InputTables
  /\ prompt_column \in {"prompt", "text"}
  /\ max_rows \in Caps
  /\ df = EmptyTable
  /\ results = EmptyTable
  /\ idx = 1
  /\ cj = 1
  /\ bpc = "start"
  /\ calls = <<>>
  /\ MainIdle

\* lines 251-253: the prompt column is missing
ColumnMissing ==
  /\ bpc = "start" /\ prompt_column \notin ColumnSet(file)
  /\ bpc' = "returned"
  /\ UNCHANGED <<file, prompt_column, max_rows, df, results, idx, cj, calls>>
  /\ UNCHANGED <<dvars, mvars, hvars, tvars>>

\* lines 255-260: the row cap, then the copy
BeginRows ==
  /\ bpc = "start" /\ prompt_column \in ColumnSet(file)
  /\ df' = Capped(file, max_rows)
  /\ results' = Capped(file, max_rows)
  /\ idx' = 1
  /\ bpc' = "rows"
  /\ UNCHANGED <<file, prompt_column, max_rows, cj, calls>>
  /\ UNCHANGED <<dvars, mvars, hvars, tvars>>

\* lines 262-266: a null or blank prompt, the row is skipped
SkipRow ==
  /\ bpc = "rows" /\ idx <= Len(df.rows) /\ IsBlank(Prompt)
  /\ idx' = idx + 1
  /\ UNCHANGED <<file, prompt_column, max_rows, df, results, cj, bpc, calls>>
  /\ UNCHANGED <<dvars, mvars, hvars, tvars>>

\* lines 262-270: a retained row enters the loop over the converters
EnterRow ==
  /\ bpc = "rows" /\ idx <= Len(df.rows) /\ ~IsBlank(Prompt)
  /\ cj' = 1
  /\ bpc' = "converters"
  /\ UNCHANGED <<file, prompt_column, max_rows, df, results, idx, calls>>
  /\ UNCHANGED <<dvars, mvars, hvars, tvars>>

\* lines 271-280: the conversion returns, its text goes into the cell
ConvertReturns ==
  /\ bpc = "converters" /\ cj <= Len(text_to_text_converters)
  /\ results' = SetCell(results, idx, OutputColumn(Converter(cj)),
                        Str(ConvertText(Converter(cj), Prompt.s)))
  /\ calls' = Append(calls, Call(idx, Converter(cj), "returned", <<>>))
  /\ cj' = cj + 1
  /\ UNCHANGED <<file, prompt_column, max_rows, df, idx, bpc>>
  /\ UNCHANGED <<dvars, mvars, hvars, tvars>>

\* lines 272-285: the conversion returns an output_text of None; line 278
\* stores it, the log line 280 raises on it and line 285 stores the marker
ConvertReturnsNone ==
  /\ bpc = "converters" /\ cj <= Len(text_to_text_converters)
  /\ results' = SetCell(SetCell(results, idx, OutputColumn(Converter(cj)), NaN),
                        idx, OutputColumn(Converter(cj)),
                        ErrorMarker(NoneNotSubscriptable))
  /\ calls' = Append(calls, Call(idx, Converter(cj), "none", NoneNotSubscriptable))
  /\ cj' = cj + 1
  /\ UNCHANGED <<file, prompt_column, max_rows, df, idx, bpc>>
  /\ UNCHANGED <<dvars, mvars, hvars, tvars>>

\* mutant: the exception leaves the loop over the converters of the row
ConvertRaises_LeavesRow ==
  /\ bpc = "converters" /\ cj <= Len(text_to_text_converters)
  /\ \E msg \in BatchErrors :
       /\ results' = SetCell(results, idx, OutputColumn(Converter(cj)),
                             ErrorMarker(msg))
       /\ calls' = Append(calls, Call(idx, Converter(cj), "raised", msg))
  /\ cj' = Len(text_to_text_converters) + 1
  /\ UNCHANGED <<file, prompt_column, max_rows, df, idx, bpc>>
  /\ UNCHANGED <<dvars, mvars, hvars, tvars>>

\* lines 282-285: the conversion raises, the marker goes into the cell
ConvertRaises ==
  /\ bpc = "converters" /\ cj <= Len(text_to_text_converters)
  /\ \E msg \in BatchErrors :
       /\ results' = SetCell(results, idx, OutputColumn(Converter(cj)),
                             ErrorMarker(msg))
       /\ calls' = Append(calls, Call(idx, Converter(cj), "raised", msg))
  /\ cj' = cj + 1
  /\ UNCHANGED <<file, prompt_column, max_rows, df, idx, bpc>>
  /\ UNCHANGED <<dvars, mvars, hvars, tvars>>

\* line 270: the converters are exhausted, line 262: next row
RowDone ==
  /\ bpc = "converters" /\ cj > Len(text_to_text_converters)
  /\ idx' = idx + 1
  /\ bpc' = "rows"
  /\ UNCHANGED <<file, prompt_column, max_rows, df, results, cj, calls>>
  /\ UNCHANGED <<dvars, mvars, hvars, tvars>>

\* lines 287-298: the rows are exhausted, the enriched table is saved
SaveResults ==
  /\ bpc = "rows" /\ idx > Len(df.rows)
  /\ bpc' = "saved"
  /\ UNCHANGED <<file, prompt_column, max_rows, df, results, idx, cj, calls>>
  /\ UNCHANGED <<dvars, mvars, hvars, tvars>>

NextBatch ==
  \/ ColumnMissing
  \/ BeginRows
  \/ SkipRow
  \/ EnterRow
  \/ ConvertReturns
  \/ ConvertReturnsNone
  \/ ConvertRaises
  \/ RowDone
  \/ SaveResults

SpecBatch == InitBatch /\ [][NextBatch]_vars

(* =================== process_single_prompt and main ==================== *)
\* args.prompt: None when -p is absent, otherwise the string given
PromptArgs == { NaN, Str(<<>>), Str(<<"h", "i">>) }

\* the truth value of args.prompt: None and '' are false
Truthy(p) == ~p.nan /\ p.s # <<>>

\* the Status cells of lines 321 and 329
Success == [ok |-> TRUE, kind |-> ""]
Failure(kind) == [ok |-> FALSE, kind |-> kind]

\* what a conversion of process_single_prompt raises
SingleErrors ==
  { [type |-> "ValueError", msg |-> <<"b", "o", "o", "m">>],
    [type |-> "RuntimeError", msg |-> <<"b", "o", "o", "m">>] }

\* str(e) of the AttributeError of line 320 on a result that is None
NoOutputText ==
  [type |-> "AttributeError",
   msg |-> <<"n", "o", " ", "o", "u", "t", "p", "u", "t", "_", "t", "e", "x", "t">>]

SinglePrompt == args.prompt
SingleConverter == text_to_text_converters[sj].key

\* the four appends of lines 318-321, or of lines 326-329
AppendRecord(r, name, input, output, status) ==
  [Converter |-> Append(r.Converter, name),
   Input |-> Append(r.Input, input),
   Output |-> Append(r.Output, output),
   Status |-> Append(r.Status, status)]

\* pd.DataFrame(dict of lists) needs lists of one length
SameLengths(r) ==
  /\ Len(r.Converter) = Len(r.Input)
  /\ Len(r.Input) = Len(r.Output)
  /\ Len(r.Output) = Len(r.Status)

\* main after discovery, lines 357-358: the ledger is what discovery left
InitMain ==
  /\ modules = <<>>
  /\ pc = "done"
  /\ mi = 1
  /\ ci = 1
  /\ pat = 1
  /\ attempts = <<>>
  /\ cur = NoCur
  /\ elapsed = 0
  /\ text_to_text_converters \in ConverterDicts
  /\ working_converters =
       [j \in 1..Len(text_to_text_converters) |->
          [key |-> text_to_text_converters[j].key,
           val |-> WorkingEntry(text_to_text_converters[j].val, TextCaps)]]
  /\ failed_converters = <<>>
  /\ probed = <<>>
  /\ last = NoLast
  /\ args \in [prompt : PromptArgs, input_file : BOOLEAN]
  /\ IF args.input_file /\ ~Truthy(args.prompt)
       THEN /\ file \in InputTables
            /\ prompt_column \in {"prompt", "text"}
            /\ max_rows \in Caps
       ELSE /\ file = EmptyTable
            /\ prompt_column = "prompt"
            /\ max_rows = NoCap
  /\ df = EmptyTable
  /\ results = EmptyTable
  /\ idx = 1
  /\ cj = 1
  /\ bpc = "idle"
  /\ calls = <<>>
  /\ mpc = "discovered"
  /\ exit_code = NotExited
  /\ single = EmptyResults
  /\ sj = 1
  /\ ctor = NoCtor
  /\ abandoned = {}
  /\ patch = NoPatch
  /\ TwiceIdle

\* lines 360-364: no text-to-text converter, sys.exit(1)
MainNoConverters ==
  /\ mpc = "discovered" /\ Len(text_to_text_converters) = 0
  /\ exit_code' = 1
  /\ mpc' = "exited"
  /\ UNCHANGED <<args, single, sj>>
  /\ UNCHANGED <<dvars, bvars, hvars, tvars>>

\* lines 368-369 and 304-309: -p with a non-empty prompt
MainSinglePrompt ==
  /\ mpc = "discovered" /\ Len(text_to_text_converters) > 0
  /\ Truthy(args.prompt)
  /\ mpc' = "single"
  /\ single' = EmptyResults
  /\ sj' = 1
  /\ UNCHANGED <<args, exit_code>>
  /\ UNCHANGED <<dvars, bvars, hvars, tvars>>

\* lines 383-389: no prompt, an input file: process_excel is called
MainBatch ==
  /\ mpc = "discovered" /\ Len(text_to_text_converters) > 0
  /\ ~Truthy(args.prompt) /\ args.input_file
  /\ mpc' = "batch"
  /\ bpc' = "start"
  /\ UNCHANGED <<args, exit_code, single, sj>>
  /\ UNCHANGED <<file, prompt_column, max_rows, df, results, idx, cj, calls>>
  /\ UNCHANGED <<dvars, hvars, tvars>>

\* lines 390-392: neither: the help text, then sys.exit(1)
MainUsage ==
  /\ mpc = "discovered" /\ Len(text_to_text_converters) > 0
  /\ ~Truthy(args.prompt) /\ ~args.input_file
  /\ exit_code' = 1
  /\ mpc' = "exited"
  /\ UNCHANGED <<args, single, sj>>
  /\ UNCHANGED <<dvars, bvars, hvars, tvars>>

\* lines 313-323: the conversion returns a result with its output text
SingleReturns ==
  /\ mpc = "single" /\ sj <= Len(text_to_text_converters)
  /\ single' = AppendRecord(single, SingleConverter, SinglePrompt,
                            Str(ConvertText(SingleConverter, SinglePrompt.s)),
                            Success)
  /\ calls' = Append(calls, Call(0, SingleConverter, "returned", <<>>))
  /\ sj' = sj + 1
  /\ UNCHANGED <<args, mpc, exit_code>>
  /\ UNCHANGED <<file, prompt_column, max_rows, df, results, idx, cj, bpc>>
  /\ UNCHANGED <<dvars, hvars, tvars>>

\* lines 313-329: the conversion returns None: lines 318-319 have appended
\* the name and the input when line 320 raises, and the handler appends a
\* whole record
SingleReturnsNone ==
  /\ mpc = "single" /\ sj <= Len(text_to_text_converters)
  /\ single' =
       AppendRecord([single EXCEPT
                       !.Converter = Append(@, SingleConverter),
                       !.Input = Append(@, SinglePrompt)],
                    SingleConverter, SinglePrompt,
                    Str(NoOutputText.msg), Failure(NoOutputText.type))
  /\ calls' = Append(calls, Call(0, SingleConverter, "none", NoOutputText.msg))
  /\ sj' = sj + 1
  /\ UNCHANGED <<args, mpc, exit_code>>
  /\ UNCHANGED <<file, prompt_column, max_rows, df, results, idx, cj, bpc>>
  /\ UNCHANGED <<dvars, hvars, tvars>>

\* lines 325-331: the conversion raises
SingleRaises ==
  /\ mpc = "single" /\ sj <= Len(text_to_text_converters)
  /\ \E e \in SingleErrors :
       /\ single' = AppendRecord(single, SingleConverter, SinglePrompt,
                                 Str(e.msg), Failure(e.type))
       /\ calls' = Append(calls, Call(0, SingleConverter, "raised", e.msg))
  /\ sj' = sj + 1
  /\ UNCHANGED <<args, mpc, exit_code>>
  /\ UNCHANGED <<file, prompt_column, max_rows, df, results, idx, cj, bpc>>
  /\ UNCHANGED <<dvars, hvars, tvars>>

\* line 333: the table is built from the lists; lines 370-381: it is saved
SingleTable ==
  /\ mpc = "single" /\ sj > Len(text_to_text_converters)
  /\ SameLengths(single)
  /\ mpc' = "table"
  /\ UNCHANGED <<args, exit_code, single, sj>>
  /\ UNCHANGED <<dvars, bvars, hvars, tvars>>

\* line 333: lists of different lengths, pd.DataFrame raises ValueError,
\* nothing in main catches it and the interpreter exits with code 1
SingleTableRaises ==
  /\ mpc = "single" /\ sj > Len(text_to_text_converters)
  /\ ~SameLengths(single)
  /\ exit_code' = 1
  /\ mpc' = "exited"
  /\ UNCHANGED <<args, single, sj>>
  /\ UNCHANGED <<dvars, bvars, hvars, tvars>>

\* lines 394-404: the summary is printed and main returns
MainSummary ==
  /\ \/ mpc = "table"
     \/ mpc = "batch" /\ bpc \in {"returned", "saved"}
  /\ exit_code' = 0
  /\ mpc' = "exited"
  /\ UNCHANGED <<args, single, sj>>
  /\ UNCHANGED <<dvars, bvars, hvars, tvars>>

NextMain ==
  \/ MainNoConverters
  \/ MainSinglePrompt
  \/ MainBatch
  \/ MainUsage
  \/ SingleReturns
  \/ SingleReturnsNone
  \/ SingleRaises
  \/ SingleTable
  \/ SingleTableRaises
  \/ MainSummary
  \/ NextBatch

SpecMain == InitMain /\ [][NextMain]_vars

(* ---------------- main, from discovery to the processors --------------- *)
\* lines 336-355: main is started on a plugin set and a command line
InitRun ==
  /\ modules = <<>>
  /\ pc = "replay"
  /\ mi = 1
  /\ ci = 1
  /\ pat = 1
  /\ attempts = <<>>
  /\ cur = NoCur
  /\ elapsed = 0
  /\ working_converters = <<>>
  /\ failed_converters = <<>>
  /\ text_to_text_converters = <<>>
  /\ probed = <<>>
  /\ last = NoLast
  /\ args \in [prompt : PromptArgs, input_file : BOOLEAN]
  /\ IF args.input_file /\ ~Truthy(args.prompt)
       THEN /\ file \in { ScenarioTable, MarkerTable }
            /\ prompt_column \in {"prompt", "text"}
       ELSE /\ file = EmptyTable
            /\ prompt_column = "prompt"
  /\ max_rows = NoCap
  /\ df = EmptyTable
  /\ results = EmptyTable
  /\ idx = 1
  /\ cj = 1
  /\ bpc = "idle"
  /\ calls = <<>>
  /\ mpc = "discovering"
  /\ exit_code = NotExited
  /\ single = EmptyResults
  /\ sj = 1
  /\ ctor = NoCtor
  /\ abandoned = {}
  /\ patch = NoPatch
  /\ plan \in PlansUpTo(MaxScan)
  /\ run = 1
  /\ pos = 1
  /\ first = [working |-> <<>>, failed |-> <<>>, text |-> <<>>]

\* lines 355-358: discover_and_test_converters has returned
MainDiscovered ==
  /\ mpc = "discovering" /\ pos > Len(plan)
  /\ mpc' = "discovered"
  /\ UNCHANGED <<args, exit_code, single, sj>>
  /\ UNCHANGED <<dvars, bvars, hvars, tvars>>

NextRun ==
  \/ ScanStep
  \/ MainDiscovered
  \/ NextMain

SpecRun == InitRun /\ [][NextRun]_vars

(* ======================= discovery: the claims ========================= *)
\* the (module, class) pairs of the loadable modules 1..n, in scan order
RECURSIVE ScanOrder(_)
ScanOrder(n) ==
  IF n = 0 THEN <<>>
  ELSE ScanOrder(n - 1) \o
       [j \in 1..Len(modules[n].classes) |->
          <<modules[n].name, modules[n].classes[j]>>]

LedgerNames == Keys(working_converters) \cup Keys(failed_converters)

\* C1: every probed plugin name is in exactly one of working and failed, and
\* no name is ever in both.
C1_ExactlyOneOfWorkingFailed ==
  /\ \A n \in LedgerNames :
       ~(Has(working_converters, n) /\ Has(failed_converters, n))
  /\ (pc = "class" /\ last.verdict # "none") => last.cls \in LedgerNames

\* C2: every name in textToText is in working, and its working entry declares
\* text in both its supported input kinds and its supported output kinds.
C2_TextToTextWithinWorking ==
  \A n \in Keys(text_to_text_converters) :
    /\ Has(working_converters, n)
    /\ "text" \in Val(working_converters, n).inputs.kinds
    /\ "text" \in Val(working_converters, n).outputs.kinds

\* C3: a plugin that constructs with the no-argument candidate and whose probe
\* conversion completes within the deadline is in working, and in textToText
\* when its capabilities are text/text; the ledgers never lose a name, so this
\* still holds after discovery.
C3_NoArgCompletedIsWorking ==
  /\ [](( /\ pc = "class" /\ last.verdict = "returned" /\ last.noarg)
         => /\ Has(working_converters, last.cls)
            /\ last.text => Has(text_to_text_converters, last.cls))
  /\ [][ /\ Keys(working_converters) \subseteq Keys(working_converters')
         /\ Keys(text_to_text_converters) \subseteq Keys(text_to_text_converters')
       ]_vars

C3_Witness ==
  /\ pc = "done"
  /\ last.verdict = "returned" /\ last.noarg /\ last.text
  /\ Has(text_to_text_converters, last.cls)

\* C4: the probe of a plugin whose conversion never returns ends once the
\* deadline has passed: the harness is no longer waiting after it.
C4_ProbeEndsAtDeadline ==
  (pc = "waiting" /\ cur.kind \in {"never", "blocks"}) => elapsed <= Deadline

C6_LoadFailureIsolated ==
  /\ \A i \in 1..Len(modules) :
       (~modules[i].loadable /\ (i < mi)) =>
         /\ Cardinality({ j \in 1..Len(failed_converters) :
                            failed_converters[j].key = modules[i].name }) = 1
         /\ Val(failed_converters, modules[i].name) \in
              { ImportFailed(e) : e \in ImportErrors }
         /\ ~Has(working_converters, modules[i].name)
         /\ ~Has(text_to_text_converters, modules[i].name)
  /\ Cardinality({ j \in 1..Len(failed_converters) :
                     \E i \in 1..Len(modules) :
                       failed_converters[j].key = modules[i].name })
       = Cardinality({ i \in 1..Len(modules) : ~modules[i].loadable /\ i < mi })
  /\ pc = "done" => (mi > Len(modules) /\ probed = ScanOrder(Len(modules)))

C6_Witness ==
  /\ pc = "done"
  /\ ~modules[1].loadable
  /\ Has(failed_converters, modules[1].name)
  /\ Len(probed) >= 1

(* ======================= process_excel: the claims ===================== *)
CallsOf(r, col) ==
  { k \in 1..Len(calls) : calls[k].row = r /\ OutputColumn(calls[k].conv) = col }

\* what the conversion recorded as calls[k] puts into its cell
CellOfCall(k) ==
  IF calls[k].outcome = "returned"
    THEN Str(ConvertText(calls[k].conv, df.rows[calls[k].row][prompt_column].s))
    ELSE ErrorMarker(calls[k].msg)

\* null, or nothing but whitespace
NullOrBlank(v) == v.nan \/ \A i \in 1..Len(v.s) : v.s[i] \in Whitespace

Retained == { r \in 1..Len(df.rows) : ~NullOrBlank(df.rows[r][prompt_column]) }

\* the conversions a full run makes: retained rows in order, and for each the
\* converters in the order of the ledger
RECURSIVE AllCalls(_)
AllCalls(r) ==
  IF r = 0 THEN <<>>
  ELSE AllCalls(r - 1) \o
       (IF r \in Retained
          THEN [j \in 1..Len(text_to_text_converters) |-> <<r, Converter(j)>>]
          ELSE <<>>)

CallSites == [k \in 1..Len(calls) |-> <<calls[k].row, calls[k].conv>>]

Running == bpc \in {"rows", "converters", "saved"}

\* C7: a conversion that raises puts an error marker into its own cell only:
\* every cell holds what its own conversion gave (or, with no conversion, its
\* original value or NaN), and the remaining converters and rows still run.
C7_FailureStaysInItsCell ==
  Running =>
    /\ \A r \in 1..Len(results.rows) : \A col \in ColumnSet(results) :
         IF CallsOf(r, col) # {}
           THEN \E k \in CallsOf(r, col) :
                  /\ CallsOf(r, col) = {k}
                  /\ results.rows[r][col] = CellOfCall(k)
           ELSE results.rows[r][col] =
                  (IF col \in ColumnSet(df) THEN df.rows[r][col] ELSE NaN)
    /\ bpc = "saved" => CallSites = AllCalls(Len(df.rows))

C7_Witness ==
  /\ bpc = "saved"
  /\ Len(calls) = 4
  /\ calls[1].outcome = "raised"
  /\ calls[2].outcome = "returned"
  /\ calls[2].row = calls[1].row
  /\ calls[3].outcome = "returned"
  /\ results.rows[calls[1].row][OutputColumn(calls[1].conv)]
       = ErrorMarker(calls[1].msg)

\* C8: N rows and K converters without a failing conversion give N data rows
\* in the original order and (original column count + K) columns, the new
\* ones named <name>_output.
C8_RowsAndColumnsAdded ==
  (bpc = "saved" /\ \A k \in 1..Len(calls) : calls[k].outcome = "returned") =>
    /\ Len(results.rows) = Len(df.rows)
    /\ \A r \in 1..Len(df.rows) :
         results.rows[r][prompt_column] = df.rows[r][prompt_column]
    /\ Len(results.cols) = Len(df.cols) + Len(text_to_text_converters)
    /\ \A j \in 1..Len(text_to_text_converters) :
         OutputColumn(Converter(j)) \in ColumnSet(results) \ ColumnSet(df)

\* C9: every input column is in the output and every original cell is
\* unchanged; only added <name>_output columns are written.
C9_OriginalCellsUnchanged ==
  Running =>
    /\ Len(results.rows) = Len(df.rows)
    /\ \A i \in 1..Len(df.cols) : results.cols[i] = df.cols[i]
    /\ \A r \in 1..Len(df.rows) : \A c \in ColumnSet(df) :
         results.rows[r][c] = df.rows[r][c]

\* C10: for a row whose prompt is null or blank after trimming no conversion
\* is invoked and no cell is written; every other row is processed by every
\* converter, so the rows "hi", "", "go" give 2 processed rows.
C10_BlankRowsSkipped ==
  Running =>
    /\ \A k \in 1..Len(calls) : calls[k].row \in Retained
    /\ \A r \in (1..Len(df.rows)) \ Retained : \A col \in ColumnSet(results) :
         results.rows[r][col] =
           (IF col \in ColumnSet(df) THEN df.rows[r][col] ELSE NaN)
    /\ bpc = "saved" =>
         /\ \A r \in Retained : \A j \in 1..Len(text_to_text_converters) :
              \E k \in 1..Len(calls) : CallSites[k] = <<r, Converter(j)>>
         /\ text_to_text_converters # <<>> =>
              { calls[k].row : k \in 1..Len(calls) } = Retained
    /\ (bpc = "saved" /\ df = ScenarioTable /\ text_to_text_converters # <<>>) =>
         Cardinality({ calls[k].row : k \in 1..Len(calls) }) = 2

C10_Witness ==
  /\ bpc = "saved"
  /\ df = ScenarioTable
  /\ Len(text_to_text_converters) = 1
  /\ Converter(1) = "UpperCaseConverter"
  /\ CallSites = <<<<1, "UpperCaseConverter">>, <<3, "UpperCaseConverter">>>>
  /\ results.rows[1]["UpperCaseConverter_output"] = Str(<<"H", "I">>)
  /\ results.rows[2]["UpperCaseConverter_output"] = NaN
  /\ results.rows[3]["UpperCaseConverter_output"] = Str(<<"G", "O">>)

(* ================ main and process_single_prompt: claims =============== *)
\* C11: whatever the command line, the exit code is non-zero exactly when
\* discovery ended with zero text-to-text plugins, and zero otherwise.
C11_NonZeroExitIffNoTextToText ==
  mpc = "exited" =>
    (exit_code # 0 <=> Len(text_to_text_converters) = 0)

\* C17: the single-prompt processor has invoked the text-to-text plugins once
\* each in ledger order, and holds one record per plugin invoked: name, input
\* and output text with the success status, or name, input and error message
\* with a failure status naming the error kind; the records of the other
\* plugins are as their own conversions left them.
C17_OneRecordPerPlugin ==
  mpc \in {"single", "table"} =>
    /\ Len(calls) = sj - 1
    /\ \A k \in 1..Len(calls) : calls[k].conv = text_to_text_converters[k].key
    /\ Len(single.Converter) = Len(calls)
    /\ SameLengths(single)
    /\ \A k \in 1..Len(calls) :
         /\ single.Converter[k] = text_to_text_converters[k].key
         /\ single.Input[k] = args.prompt
         /\ calls[k].outcome = "returned" =>
              /\ single.Status[k] = Success
              /\ single.Output[k] =
                   Str(ConvertText(single.Converter[k], args.prompt.s))
         /\ calls[k].outcome # "returned" =>
              /\ ~single.Status[k].ok
              /\ single.Status[k].kind # ""
              /\ single.Output[k] = Str(calls[k].msg)

(* ======================== the prober: claims =========================== *)
\* the class _try_instantiate was called on
ProbedClass == modules[1].classes[1]

\* the failures the prober is said to recover from: a shape mismatch, or a
\* value-validation error whose message has one of the three words
Recoverable(o) ==
  \/ o.type = "TypeError"
  \/ /\ o.type = "ValueError"
     /\ \/ Contains(Lower(o.msg), Chars("required"))
        \/ Contains(Lower(o.msg), Chars("empty"))
        \/ Contains(Lower(o.msg), Chars("valid"))

\* C12: the candidates are attempted in the declared order from the
\* no-argument one, each once; the first that constructs ends the probing with
\* its instance and nothing is attempted after it; when every candidate fails
\* with a shape mismatch, all of them have been attempted in that order and the
\* plugin is in failed.
C12_CandidatesInDeclaredOrder ==
  /\ [](/\ Len(ctor.tried) <= NumPatterns
        /\ ctor.tried = [k \in 1..Len(ctor.tried) |-> k]
        /\ (ctor.tried # <<>> /\ ctor.last.ok) =>
             /\ pc = "test" /\ cur.active
             /\ cur.noarg <=> (ctor.tried = <<1>>)
        /\ (pc # "inst" /\ ~ctor.last.ok /\ ctor.shape_only) =>
             /\ Len(ctor.tried) = NumPatterns
             /\ Has(failed_converters, ProbedClass)
             /\ Val(failed_converters, ProbedClass) = CouldNotInstantiate
             /\ ~Has(working_converters, ProbedClass))
  /\ [][(ctor.tried # <<>> /\ ctor.last.ok) => ctor' = ctor]_vars

C12_Witness ==
  /\ pc = "class"
  /\ ctor.shape_only /\ ctor.last.type = "TypeError"
  /\ Len(ctor.tried) = NumPatterns
  /\ Has(failed_converters, ProbedClass)

\* C13: a constructor call is made after an earlier one only when the earlier
\* one failed with a shape mismatch or with a value-validation error whose
\* message has "required", "empty" or "valid": any other failure was the
\* last call, whatever its message.
C13_OtherFailureStops ==
  [][(ctor' # ctor /\ ctor.tried # <<>>) => Recoverable(ctor.last)]_vars

\* C14: a constructor call that fails with a shape mismatch, or with a
\* value-validation error whose message has "required", "empty" or "valid",
\* moves the prober to the next candidate and does not end the probing.
C14_RecoverableFailureAdvances ==
  [][(ctor' # ctor /\ ~ctor'.last.ok /\ Recoverable(ctor'.last)) =>
       /\ pc' = "inst"
       /\ pat' = pat + 1
       /\ ctor'.tried = Append(ctor.tried, pat)
       /\ UNCHANGED ledger]_vars

C14_Witness ==
  /\ pc = "inst"
  /\ ctor.last.type = "ValueError" /\ Recoverable(ctor.last)
  /\ pat = 3 /\ ctor.tried = <<1, 2>>

(* =================== discovery: the claims, continued ================== *)
\* C15: within one discovery pass no plugin name is probed twice, also when
\* the same class is visible from several scanned modules.
C15_EachNameProbedOnce ==
  \A i, j \in 1..Len(probed) : i # j => probed[i][2] # probed[j][2]

\* C18: when the probe conversion of a plugin raises, the plugin is in failed
\* with a reason made of the error's type and message, and is neither in
\* working nor in textToText.
C18_RaisedIsFailedWithTypeAndMessage ==
  [][(pc = "waiting" /\ cur.kind = "raises" /\ pc' # "waiting") =>
       /\ Has(failed_converters', ClassName)
       /\ Val(failed_converters', ClassName) = TestingFailed(cur.err)
       /\ ~Has(working_converters', ClassName)
       /\ ~Has(text_to_text_converters', ClassName)]_vars

\* C19: the conversion of HumanInTheLoopConverter is never started during
\* discovery; when the class instantiates its probe ends as skipped, with the
\* plugin in working, and in textToText when its capabilities are text/text.
C19_InteractiveNeverExecuted ==
  /\ pc = "waiting" => ClassName # "HumanInTheLoopConverter"
  /\ (pc = "class" /\ last.cls = "HumanInTheLoopConverter") =>
       /\ last.verdict \in {"skipped_test", "could_not_instantiate"}
       /\ last.verdict = "skipped_test" =>
            /\ Has(working_converters, last.cls)
            /\ Val(working_converters, last.cls).is_text_to_text = last.text
            /\ last.text => Has(text_to_text_converters, last.cls)

C19_Witness ==
  /\ pc = "class"
  /\ last.cls = "HumanInTheLoopConverter" /\ last.verdict = "skipped_test"
  /\ last.text
  /\ Has(text_to_text_converters, "HumanInTheLoopConverter")

\* C20: whatever the plugin's name, a plugin that instantiates and has no
\* asynchronous conversion entry point is in failed, and neither in working
\* nor in textToText.
C20_NoEntryPointIsFailed ==
  (/\ pc = "class"
   /\ last.verdict \notin {"none", "could_not_instantiate"}
   /\ ~last.entry) =>
    /\ Has(failed_converters, last.cls)
    /\ ~Has(working_converters, last.cls)
    /\ ~Has(text_to_text_converters, last.cls)

\* C16: after a second run of discovery on an unchanged plugin set, working,
\* failed and textToText hold the names they held after the first run, and
\* every failed name has the reason it had.
C16_SecondRunChangesNothing ==
  run = 3 =>
    /\ Keys(working_converters) = Keys(first.working)
    /\ Keys(failed_converters) = Keys(first.failed)
    /\ Keys(text_to_text_converters) = Keys(first.text)
    /\ \A n \in Keys(failed_converters) :
         Val(failed_converters, n) = Val(first.failed, n)

C16_Witness ==
  /\ run = 3
  /\ Len(plan) = 3
  /\ plan[1].kind = "returns" /\ plan[2].kind = "timeout"
  /\ plan[1].key = plan[2].key
  /\ plan[3].kind = "import_fails"
  /\ Keys(first.text) # {} /\ Cardinality(Keys(first.failed)) = 2

\* C21: a plugin conversion is started only when no earlier conversion, one
\* abandoned after a timeout included, is still executing
C21_NoTwoConversionsAtOnce ==
  [][(pc = "test" /\ pc' = "waiting") => abandoned = {}]_vars

\* does a cell carry the error-marker prefix "ERROR: "
HasMarker(v) ==
  /\ ~v.nan
  /\ Len(v.s) >= Len(MarkerPrompt.s)
  /\ SubSeq(v.s, 1, Len(MarkerPrompt.s)) = MarkerPrompt.s

\* C22: in the batch output the cell <name>_output of a row carries the
\* error-marker prefix if and only if that plugin's conversion failed for
\* that row; the output of a successful conversion is never marked
C22_MarkerIffConversionFailed ==
  Running =>
    \A k \in 1..Len(calls) :
      HasMarker(results.rows[calls[k].row][OutputColumn(calls[k].conv)])
        <=> calls[k].outcome # "returned"

\* the steps of the scan that write key into the text-to-text mapping
TextWrites(key) ==
  { i \in 1..Len(plan) :
      /\ plan[i].key = key
      /\ plan[i].kind \in {"returns", "skipped"}
      /\ IsTextToText(plan[i].caps.inputs, plan[i].caps.outputs) }

\* position of a plugin name in the text-to-text mapping
TextIndex(key) ==
  CHOOSE j \in 1..Len(text_to_text_converters) :
    text_to_text_converters[j].key = key

\* C23: the batch handles the rows in input order and invokes, for every
\* retained row, every text-to-text plugin exactly once on the row's text, in
\* the insertion order of the ledger, which is the order of the scan
C23_RowsAndPluginsInOrder ==
  /\ mpc # "discovering" =>
       \A j, l \in 1..Len(text_to_text_converters) :
         j < l =>
           \E i \in TextWrites(text_to_text_converters[j].key) :
             \A i2 \in TextWrites(text_to_text_converters[l].key) : i < i2
  /\ Running =>
       /\ \A k \in 1..Len(calls) :
            /\ calls[k].row \in Retained
            /\ \E j \in 1..Len(text_to_text_converters) :
                 calls[k].conv = text_to_text_converters[j].key
            /\ calls[k].outcome = "returned" =>
                 results.rows[calls[k].row][OutputColumn(calls[k].conv)]
                   = Str(ConvertText(calls[k].conv,
                                     df.rows[calls[k].row][prompt_column].s))
       /\ \A k, l \in 1..Len(calls) :
            k < l =>
              \/ calls[k].row < calls[l].row
              \/ /\ calls[k].row = calls[l].row
                 /\ TextIndex(calls[k].conv) < TextIndex(calls[l].conv)
       /\ bpc = "saved" =>
            \A r \in Retained : \A j \in 1..Len(text_to_text_converters) :
              \E k \in 1..Len(calls) :
                /\ calls[k].row = r
                /\ calls[k].conv = text_to_text_converters[j].key

C23_Witness ==
  /\ bpc = "saved"
  /\ Len(plan) = 2
  /\ plan[1].kind = "returns"
  /\ plan[2].kind = "skipped"
  /\ Len(text_to_text_converters) = 2
  /\ text_to_text_converters[1].key = "UpperCaseConverter"
  /\ Len(calls) = 4
  /\ calls[2].conv = HumanInTheLoop
  /\ calls[3].row = 3

\* has process_single_prompt, has process_excel been entered
SingleRan == mpc \in {"single", "table"} \/ single # EmptyResults
BatchRan == bpc # "idle"

\* C24: one invocation runs at most one of the two processors, and with a
\* literal prompt given on the command line the batch processor is never
\* run, with or without an input file
C24_PromptExcludesBatch ==
  /\ ~(SingleRan /\ BatchRan)
  /\ ~args.prompt.nan => ~BatchRan

\* C25: a probe records the timeout reason only if the deadline passed before
\* its conversion finished; a conversion that raises before the deadline is
\* never recorded with the timeout reason
C25_TimeoutReasonOnlyAtDeadline ==
  [][(pc = "waiting" /\ pc' = "class"
        /\ last'.verdict \in {"raised", "timeout"}) =>
       /\ Val(failed_converters', ClassName) = TimeoutReason
            => elapsed >= Deadline
       /\ cur.kind = "raises"
            => Val(failed_converters', ClassName) # TimeoutReason]_vars

\* C26: a plugin for which _try_instantiate returned no instance is in failed
\* with the could-not-instantiate reason and is in neither working nor
\* the text-to-text mapping
C26_NoInstanceIsFailedOnly ==
  (pc = "class" /\ last.verdict = "could_not_instantiate") =>
    /\ Has(failed_converters, last.cls)
    /\ Val(failed_converters, last.cls) = CouldNotInstantiate
    /\ ~Has(working_converters, last.cls)
    /\ ~Has(text_to_text_converters, last.cls)

\* C27: a probe writes a working or text-to-text entry only when its
\* conversion completed within the deadline or the plugin is the interactive
\* special case; a probe whose conversion timed out or raised writes neither
C27_WorkingOnlyWithinDeadline ==
  [][(/\ pc \in {"test", "waiting"}
      /\ \/ working_converters' # working_converters
         \/ text_to_text_converters' # text_to_text_converters) =>
       \/ pc = "test" /\ ClassName = HumanInTheLoop
       \/ /\ pc = "waiting"
          /\ cur.kind \notin {"raises", "never"}
          /\ elapsed <= Deadline]_vars

\* the plugins the two processors have invoked
Invoked == { calls[k].conv : k \in 1..Len(calls) }

C29_RowCapLimitsRows ==
  (Running /\ max_rows.given /\ max_rows.n >= 0) =>
    /\ Len(results.rows) <= max_rows.n
    /\ \A k \in 1..Len(calls) : calls[k].row <= max_rows.n

\* C30: whenever the patcher overwrites a converter file, the backup of the
\* file already holds the text the file had just before; and a second run of
\* the patcher changes neither a file the first run patched nor its backup
C30_BackupFirstAndSecondRunIdle ==
  [][\A f \in 1..Len(patch.files) :
       /\ patch'.files[f] # patch.files[f] =>
            patch.backups[f] = Backup(patch.files[f])
       /\ (patch.run = 2 /\ <<1, f>> \in patch.patched) =>
            /\ patch'.files[f] = patch.files[f]
            /\ patch'.backups[f] = patch.backups[f]]_vars

====
